---- MODULE Spec2Model ----
(***************************************************************************)
(* Booking / availability engine and meeting rooms of the Oakyard backend. *)
(*                                                                         *)
(* Time is counted in minutes since midnight of day 0 (UTC).  Money is     *)
(* counted in cents.  A booking id is its index in the bookings table, a   *)
(* room id its index in the rooms table.                                   *)
(***************************************************************************)
EXTENDS Integers, Sequences, FiniteSets, TLC

VARIABLES
    now,        \* datetime.utcnow()
    bookings,   \* the bookings table: sequence of rows, id = index
    threads,    \* the create_booking requests of the concurrent specification
    reviews,    \* the reviews table: sequence of rows
    rooms,      \* the rooms table: sequence of rows, id = index
    participants, \* the room_participants table: for each room id and user
                  \* id, the sequence of the rows of that pair
    joiners,    \* the join requests of the concurrent room specification
    messages,   \* the messages table: sequence of rows in commit order
    stamp,      \* the number of clock readings taken for message rows
    posters,    \* the send_message requests of the chat specification
    creators    \* the create_room requests of the room code specification

roomVars == <<rooms, participants, joiners>>

chatVars == <<messages, stamp, posters, creators>>

vars == <<now, bookings, threads, reviews, rooms, participants, joiners,
          messages, stamp, posters, creators>>

----------------------------------------------------------------------------
(* Bounds of the model *)

MaxBookings == 2
MaxThreads == 2
MaxRooms == 1
MaxSweepRooms == 2

----------------------------------------------------------------------------
(* Time *)

MinutesPerHour == 60
HoursPerDay == 24
CancelHours == 24
MinDurationMinutes == 60
MaxDurationMinutes == 1440
OpenHour == 9
CloseHour == 21

At(day, hour, minute) == (day * HoursPerDay + hour) * MinutesPerHour + minute

HourOf(t) == (t \div MinutesPerHour) % HoursPerDay

NoTime == 0 - 1

\* the instants the clock visits
NowInstants == { At(0, 8, 59), At(0, 9, 0), At(1, 11, 30) }

\* the windows requests name, as <<start_time, end_time>>: two hours, the
\* half hour right after them, and an empty window
RequestWindows ==
    { <<At(1, 9, 0), At(1, 11, 0)>>,
      <<At(1, 11, 0), At(1, 11, 30)>>,
      <<At(1, 11, 0), At(1, 11, 0)>> }

\* windows the validation of create_booking turns down at any time: 59
\* minutes, 24 hours and a minute, a start at 08:59, an end at 22:00
RejectedWindows ==
    { <<At(2, 9, 0), At(2, 9, 59)>>,
      <<At(2, 9, 0), At(3, 9, 1)>>,
      <<At(2, 8, 59), At(2, 10, 0)>>,
      <<At(2, 20, 0), At(2, 22, 0)>> }

\* windows on the limits of the validation: one hour, 24 hours, an end at
\* 21:59
BoundaryWindows ==
    { <<At(2, 9, 0), At(2, 10, 0)>>,
      <<At(2, 9, 0), At(3, 9, 0)>>,
      <<At(2, 20, 0), At(2, 21, 59)>> }

StartInstants == { w[1] : w \in RequestWindows }

EndInstants == { w[2] : w \in RequestWindows }

\* what an update request carries for start_time and end_time
StartOptions == StartInstants \cup { NoTime }

EndOptions == EndInstants \cup { NoTime }

----------------------------------------------------------------------------
(* Users and spaces *)

Users == 1 .. 4

Role(u) == IF u = 3 THEN "admin" ELSE IF u = 2 THEN "owner" ELSE "user"

\* the users who send create requests
Requesters == { 1 }

SpaceIds == 1 .. 4

\* a space id with no row
MissingSpace == 5

\* the spaces table: space 1 at 50.00 an hour, space 2 at 75.50, space 3
\* not yet approved, space 4 not active
spaces ==
    [ s \in SpaceIds |->
        [ owner_id    |-> 2,
          hourly_rate |-> IF s = 2 THEN 7550 ELSE 5000,
          is_active   |-> (s # 4),
          is_approved |-> (s # 3) ] ]

Reasons == { "changed plans" }

NullReason == "NULL"

----------------------------------------------------------------------------
(* Booking rows *)

BookingIds == 1 .. Len(bookings)

\* Numeric(10, 2): the product rate * minutes / 60 kept to the cent
Quantize(num, den) == (2 * num + den) \div (2 * den)

\* the total without the duration
TotalAmountFlat(rate, start_time, end_time) == rate

TotalAmount(rate, start_time, end_time) ==
    Quantize(rate * (end_time - start_time), MinutesPerHour)

NewBooking(user, sid, start_time, end_time) ==
    [ user_id             |-> user,
      space_id            |-> sid,
      start_time          |-> start_time,
      end_time            |-> end_time,
      total_amount        |-> TotalAmount(spaces[sid].hourly_rate, start_time, end_time),
      status              |-> "pending",
      payment_status      |-> "unpaid",
      cancellation_reason |-> NullReason ]

\* is_available with the first clause closed at the end of the booking
IsAvailableClosedEnd(sid, start_time, end_time) ==
    ~ \E i \in BookingIds :
        /\ bookings[i].space_id = sid
        /\ bookings[i].status \in { "confirmed", "pending" }
        /\ \/ ( bookings[i].start_time <= start_time /\ bookings[i].end_time >= start_time )
           \/ ( bookings[i].start_time < end_time /\ bookings[i].end_time >= end_time )
           \/ ( bookings[i].start_time >= start_time /\ bookings[i].end_time <= end_time )

\* Space.is_available: no confirmed/pending booking of the space matches
\* one of the three conflict clauses
IsAvailable(sid, start_time, end_time) ==
    ~ \E i \in BookingIds :
        /\ bookings[i].space_id = sid
        /\ bookings[i].status \in { "confirmed", "pending" }
        /\ \/ ( bookings[i].start_time <= start_time /\ bookings[i].end_time > start_time )
           \/ ( bookings[i].start_time < end_time /\ bookings[i].end_time >= end_time )
           \/ ( bookings[i].start_time >= start_time /\ bookings[i].end_time <= end_time )

----------------------------------------------------------------------------
(* create_booking *)

\* create_booking without the business-hours check
CreateOutcomeNoBusinessHours(sid, start_time, end_time) ==
    IF sid \notin SpaceIds \/ ~ spaces[sid].is_active \/ ~ spaces[sid].is_approved
    THEN "NotFound"
    ELSE IF start_time >= end_time THEN "StartNotBeforeEnd"
    ELSE IF start_time < now THEN "InThePast"
    ELSE IF end_time - start_time < MinDurationMinutes THEN "TooShort"
    ELSE IF end_time - start_time > MaxDurationMinutes THEN "TooLong"
    ELSE IF ~ IsAvailable(sid, start_time, end_time) THEN "ResourceUnavailable"
    ELSE "ok"

\* the checks of create_booking up to and including the availability check
CreateOutcome(sid, start_time, end_time) ==
    IF sid \notin SpaceIds \/ ~ spaces[sid].is_active \/ ~ spaces[sid].is_approved
    THEN "NotFound"
    ELSE IF start_time >= end_time THEN "StartNotBeforeEnd"
    ELSE IF start_time < now THEN "InThePast"
    ELSE IF end_time - start_time < MinDurationMinutes THEN "TooShort"
    ELSE IF end_time - start_time > MaxDurationMinutes THEN "TooLong"
    ELSE IF HourOf(start_time) < OpenHour \/ HourOf(end_time) > CloseHour
    THEN "OutsideBusinessHours"
    ELSE IF ~ IsAvailable(sid, start_time, end_time) THEN "ResourceUnavailable"
    ELSE "ok"

\* the whole handler, run without interleaving; the row is committed before
\* the payment intent is asked for, so the answer of the payment provider
\* changes the response only
CreateResult(user, sid, start_time, end_time) ==
    IF CreateOutcome(sid, start_time, end_time) = "ok"
    THEN Append(bookings, NewBooking(user, sid, start_time, end_time))
    ELSE bookings

CreateBooking(user, sid, start_time, end_time) ==
    /\ Len(bookings) < MaxBookings
    /\ bookings' = CreateResult(user, sid, start_time, end_time)
    /\ UNCHANGED <<now, threads, reviews, roomVars, chatVars>>

----------------------------------------------------------------------------
(* create_booking as the request threads run it: the availability check and
   the insert are separate steps, and nothing orders the steps of two
   requests *)

Threads == 1 .. MaxThreads

IdleThread == [ pc |-> "idle", space_id |-> 0, user_id |-> 0,
                start_time |-> 0, end_time |-> 0, outcome |-> "none" ]

InFlight == { t \in Threads : threads[t].pc = "checked" }

\* lines 100-141: validation and availability check
CreateCheck(t, user, sid, start_time, end_time) ==
    /\ threads[t].pc = "idle"
    /\ Len(bookings) + Cardinality(InFlight) < MaxBookings
    /\ LET outcome == CreateOutcome(sid, start_time, end_time) IN
        threads' = [ threads EXCEPT ![t] =
            [ pc         |-> IF outcome = "ok" THEN "checked" ELSE "done",
              space_id   |-> sid,
              user_id    |-> user,
              start_time |-> start_time,
              end_time   |-> end_time,
              outcome    |-> IF outcome = "ok" THEN "none" ELSE outcome ] ]
    /\ UNCHANGED <<now, bookings, reviews, roomVars, chatVars>>

\* lines 143-187: insert, commit, payment intent, response
CreateInsert(t, intentOk) ==
    /\ threads[t].pc = "checked"
    /\ LET r == threads[t]
           outcome == IF intentOk THEN "ok" ELSE "PaymentIntentFailed" IN
        /\ bookings' = Append(bookings,
                NewBooking(r.user_id, r.space_id, r.start_time, r.end_time))
        /\ threads' = [ threads EXCEPT ![t].pc = "done", ![t].outcome = outcome ]
    /\ UNCHANGED <<now, reviews, roomVars, chatVars>>

----------------------------------------------------------------------------
(* update_booking *)

UpdateOutcome(actor, id, startOpt, endOpt) ==
    IF id \notin BookingIds THEN "NotFound"
    ELSE LET b == bookings[id]
             start_time == IF startOpt # NoTime THEN startOpt ELSE b.start_time
             end_time == IF endOpt # NoTime THEN endOpt ELSE b.end_time
         IN
         IF b.user_id # actor /\ spaces[b.space_id].owner_id # actor /\ Role(actor) # "admin"
         THEN "PermissionDenied"
         ELSE IF b.status # "pending" THEN "InvalidTransition"
         ELSE IF b.user_id = actor /\ (startOpt # NoTime \/ endOpt # NoTime)
         THEN IF start_time >= end_time THEN "StartNotBeforeEnd"
              ELSE IF start_time < now THEN "InThePast"
              ELSE IF ~ IsAvailable(b.space_id, start_time, end_time)
              THEN "ResourceUnavailable"
              ELSE "ok"
         ELSE "ok"

\* update_booking moving the window for whoever passed the permission check
UpdateResultAnyEditor(actor, id, startOpt, endOpt) ==
    IF /\ UpdateOutcome(actor, id, startOpt, endOpt) = "ok"
       /\ (startOpt # NoTime \/ endOpt # NoTime)
    THEN LET b == bookings[id]
             start_time == IF startOpt # NoTime THEN startOpt ELSE b.start_time
             end_time == IF endOpt # NoTime THEN endOpt ELSE b.end_time
         IN [ bookings EXCEPT
                ![id].start_time = start_time,
                ![id].end_time = end_time,
                ![id].total_amount =
                    TotalAmount(spaces[b.space_id].hourly_rate, start_time, end_time) ]
    ELSE bookings

\* the bookings table the handler commits
UpdateResult(actor, id, startOpt, endOpt) ==
    IF /\ UpdateOutcome(actor, id, startOpt, endOpt) = "ok"
       /\ bookings[id].user_id = actor
       /\ (startOpt # NoTime \/ endOpt # NoTime)
    THEN LET b == bookings[id]
             start_time == IF startOpt # NoTime THEN startOpt ELSE b.start_time
             end_time == IF endOpt # NoTime THEN endOpt ELSE b.end_time
         IN [ bookings EXCEPT
                ![id].start_time = start_time,
                ![id].end_time = end_time,
                ![id].total_amount =
                    TotalAmount(spaces[b.space_id].hourly_rate, start_time, end_time) ]
    ELSE bookings

UpdateBooking(actor, id, startOpt, endOpt) ==
    /\ bookings' = UpdateResult(actor, id, startOpt, endOpt)
    /\ UNCHANGED <<now, threads, reviews, roomVars, chatVars>>

----------------------------------------------------------------------------
(* cancel_booking *)

\* can_be_cancelled with the limit itself still in time
CanBeCancelledInclusive(b) == now <= b.start_time - CancelHours * MinutesPerHour

\* Booking.can_be_cancelled
CanBeCancelled(b) == now < b.start_time - CancelHours * MinutesPerHour

\* cancel_booking with the permission check of update_booking
CancelOutcomeOwnerToo(actor, id) ==
    IF id \notin BookingIds THEN "NotFound"
    ELSE LET b == bookings[id] IN
         IF b.user_id # actor /\ spaces[b.space_id].owner_id # actor /\ Role(actor) # "admin"
         THEN "PermissionDenied"
         ELSE IF b.status \notin { "pending", "confirmed" } THEN "InvalidTransition"
         ELSE IF ~ CanBeCancelled(b) THEN "TooLateToCancel"
         ELSE "ok"

CancelOutcome(actor, id) ==
    IF id \notin BookingIds THEN "NotFound"
    ELSE LET b == bookings[id] IN
         IF b.user_id # actor /\ Role(actor) # "admin" THEN "PermissionDenied"
         ELSE IF b.status \notin { "pending", "confirmed" } THEN "InvalidTransition"
         ELSE IF ~ CanBeCancelled(b) THEN "TooLateToCancel"
         ELSE "ok"

\* cancel_booking without the refund branch
CancelResultNoRefund(actor, id, reason) ==
    IF CancelOutcome(actor, id) = "ok"
    THEN [ bookings EXCEPT
            ![id].status = "cancelled",
            ![id].cancellation_reason = reason ]
    ELSE bookings

\* the bookings table the handler commits
CancelResult(actor, id, reason) ==
    IF CancelOutcome(actor, id) = "ok"
    THEN [ bookings EXCEPT
            ![id].status = "cancelled",
            ![id].cancellation_reason = reason,
            ![id].payment_status = IF @ = "paid" THEN "refunded" ELSE @ ]
    ELSE bookings

CancelBooking(actor, id, reason) ==
    /\ bookings' = CancelResult(actor, id, reason)
    /\ UNCHANGED <<now, threads, reviews, roomVars, chatVars>>

----------------------------------------------------------------------------
(* process_payment *)

\* what confirm_payment answers: the status of the retrieved intent, or
\* "error" when the retrieval raises
IntentStatuses == { "succeeded", "requires_payment_method", "error" }

PaymentOutcome(actor, id, intentStatus) ==
    IF id \notin BookingIds THEN "NotFound"
    ELSE LET b == bookings[id] IN
         IF b.user_id # actor THEN "PermissionDenied"
         ELSE IF b.status # "pending" THEN "InvalidTransition"
         ELSE IF intentStatus = "error" THEN "PaymentError"
         ELSE IF intentStatus = "succeeded" THEN "ok"
         ELSE "PaymentFailed"

\* the bookings table the handler commits
PaymentResult(actor, id, intentStatus) ==
    IF PaymentOutcome(actor, id, intentStatus) = "ok"
    THEN [ bookings EXCEPT ![id].status = "confirmed", ![id].payment_status = "paid" ]
    ELSE bookings

ProcessPayment(actor, id, intentStatus) ==
    /\ bookings' = PaymentResult(actor, id, intentStatus)
    /\ UNCHANGED <<now, threads, reviews, roomVars, chatVars>>

----------------------------------------------------------------------------
(* payment events: handle_payment_success, handle_payment_failure,
   handle_chargeback *)

\* handle_payment_success leaving payment_status as it is
PaymentSuccessResultStatusOnly(id) ==
    IF id \in BookingIds
    THEN [ bookings EXCEPT ![id].status = "confirmed" ]
    ELSE bookings

PaymentSuccessResult(id) ==
    IF id \in BookingIds
    THEN [ bookings EXCEPT ![id].status = "confirmed", ![id].payment_status = "paid" ]
    ELSE bookings

HandlePaymentSuccess(id) ==
    /\ bookings' = PaymentSuccessResult(id)
    /\ UNCHANGED <<now, threads, reviews, roomVars, chatVars>>

PaymentFailureResult(id) ==
    IF id \in BookingIds
    THEN [ bookings EXCEPT ![id].status = "cancelled", ![id].payment_status = "failed" ]
    ELSE bookings

HandlePaymentFailure(id) ==
    /\ bookings' = PaymentFailureResult(id)
    /\ UNCHANGED <<now, threads, reviews, roomVars, chatVars>>

\* the dispute names a charge; the booking its payment intent was made for
\* is marked, whatever its status
ChargebackResult(id) ==
    IF id \in BookingIds
    THEN [ bookings EXCEPT ![id].payment_status = "disputed" ]
    ELSE bookings

HandleChargeback(id) ==
    /\ bookings' = ChargebackResult(id)
    /\ UNCHANGED <<now, threads, reviews, roomVars, chatVars>>

----------------------------------------------------------------------------
(* complete_booking *)

\* complete_booking refusing at the end instant itself
CompleteOutcomeStrict(actor, id) ==
    IF id \notin BookingIds THEN "NotFound"
    ELSE LET b == bookings[id] IN
         IF spaces[b.space_id].owner_id # actor /\ Role(actor) # "admin"
         THEN "PermissionDenied"
         ELSE IF b.status # "confirmed" THEN "InvalidTransition"
         ELSE IF b.end_time >= now THEN "TooEarly"
         ELSE "ok"

CompleteOutcome(actor, id) ==
    IF id \notin BookingIds THEN "NotFound"
    ELSE LET b == bookings[id] IN
         IF spaces[b.space_id].owner_id # actor /\ Role(actor) # "admin"
         THEN "PermissionDenied"
         ELSE IF b.status # "confirmed" THEN "InvalidTransition"
         ELSE IF b.end_time > now THEN "TooEarly"
         ELSE "ok"

\* the bookings table the handler commits
CompleteResult(actor, id) ==
    IF CompleteOutcome(actor, id) = "ok"
    THEN [ bookings EXCEPT ![id].status = "completed" ]
    ELSE bookings

CompleteBooking(actor, id) ==
    /\ bookings' = CompleteResult(actor, id)
    /\ UNCHANGED <<now, threads, reviews, roomVars, chatVars>>

----------------------------------------------------------------------------
(* Space.get_availability_slots *)

SlotOpenHour == 9
SlotCloseHour == 21

\* the bookings the query of get_availability_slots fetches for a date:
\* confirmed or pending, of the space, starting and ending within the date
DayBookings(sid, day) ==
    { i \in BookingIds :
        /\ bookings[i].space_id = sid
        /\ bookings[i].status \in { "confirmed", "pending" }
        /\ bookings[i].start_time >= At(day, 0, 0)
        /\ bookings[i].end_time <= At(day, 23, 59) }

\* the loop from the candidate starting at hour h on
RECURSIVE SlotsFrom(_, _, _, _)
SlotsFrom(sid, day, duration_hours, h) ==
    IF At(day, h, 0) + duration_hours * MinutesPerHour > At(day, SlotCloseHour, 0)
    THEN << >>
    ELSE LET current_time == At(day, h, 0)
             slot_end == current_time + duration_hours * MinutesPerHour
             is_available ==
                ~ \E i \in DayBookings(sid, day) :
                    /\ current_time < bookings[i].end_time
                    /\ slot_end > bookings[i].start_time
         IN ( IF is_available THEN << <<current_time, slot_end>> >> ELSE << >> )
            \o SlotsFrom(sid, day, duration_hours, h + 1)

GetAvailabilitySlots(sid, day, duration_hours) ==
    SlotsFrom(sid, day, duration_hours, SlotOpenHour)

----------------------------------------------------------------------------
(* add_space_review *)

Ratings == { 5 }

MinRating == 1
MaxRating == 5

ReviewsOf(id) == { i \in 1 .. Len(reviews) : reviews[i].booking_id = id }

\* can_be_reviewed without the status test
CanBeReviewedAnyStatus(id) ==
    /\ now > bookings[id].end_time
    /\ ReviewsOf(id) = { }

\* Booking.can_be_reviewed
CanBeReviewed(id) ==
    /\ bookings[id].status = "completed"
    /\ now > bookings[id].end_time
    /\ ReviewsOf(id) = { }

AddReviewOutcome(actor, sid, id, rating) ==
    IF sid \notin SpaceIds \/ ~ spaces[sid].is_active THEN "NotFound"
    ELSE IF rating < MinRating \/ rating > MaxRating THEN "InvalidRating"
    ELSE IF id \notin BookingIds THEN "InvalidBooking"
    ELSE IF bookings[id].user_id # actor \/ bookings[id].space_id # sid
    THEN "InvalidBooking"
    ELSE IF ~ CanBeReviewed(id) THEN "CannotBeReviewed"
    ELSE IF \E i \in 1 .. Len(reviews) :
                reviews[i].user_id = actor /\ reviews[i].booking_id = id
    THEN "ReviewExists"
    ELSE "ok"

\* the reviews table the handler commits
AddReviewResult(actor, sid, id, rating) ==
    IF AddReviewOutcome(actor, sid, id, rating) = "ok"
    THEN Append(reviews, [ user_id    |-> actor,
                           space_id   |-> sid,
                           booking_id |-> id,
                           rating     |-> rating ])
    ELSE reviews

AddSpaceReview(actor, sid, id, rating) ==
    /\ reviews' = AddReviewResult(actor, sid, id, rating)
    /\ UNCHANGED <<now, bookings, threads, roomVars, chatVars>>

----------------------------------------------------------------------------
(* Meeting rooms: rows of rooms and room_participants *)

\* the instants the clock visits in the room specifications: a room made at
\* 08:59 for one hour expires at 09:59 and is an hour and a minute old at
\* 10:00
RoomInstants == { At(0, 8, 59), At(0, 9, 59), At(0, 10, 0) }

\* no extension is asked for beyond this instant
LastExpiry == At(0, 11, 0)

RoomUsers == 1 .. 3

RoomHosts == { 1 }

MinMaxParticipants == 2
MaxMaxParticipants == 100
MinDurationHours == 1
MaxDurationHours == 168

\* what create_room is asked for
MaxParticipantsOptions == { 2 }

DurationOptions == { 1 }

RoomIds == 1 .. Len(rooms)

\* ids a request may name; those beyond the table name no row
RequestRoomIds == 1 .. MaxRooms

\* Room.is_expired with the expiry instant itself counted as expired
IsExpiredInclusive(r) == now >= rooms[r].expires_at

\* Room.is_expired
IsExpired(r) == now > rooms[r].expires_at

\* the rows of room r that are online, as <<user_id, index>>
OnlineRows(rows, r) ==
    UNION { { <<u, i>> : i \in { k \in 1 .. Len(rows[r][u]) : rows[r][u][k].is_online } } :
            u \in RoomUsers }

\* Room.get_participant_count
GetParticipantCount(r) == Cardinality(OnlineRows(participants, r))

\* RoomParticipant.query.filter_by(room_id, user_id).first(): the index of
\* the row among the rows of the pair, or 0
FirstRow(r, u) == IF participants[r][u] = << >> THEN 0 ELSE 1

IsOnline(r, u) == FirstRow(r, u) # 0 /\ participants[r][u][FirstRow(r, u)].is_online

\* can_join without the capacity test
CanJoinAnyCount(r, u) ==
    /\ ~ IsExpired(r)
    /\ rooms[r].is_active
    /\ ~ IsOnline(r, u)

\* Room.can_join
CanJoin(r, u) ==
    /\ ~ IsExpired(r)
    /\ rooms[r].is_active
    /\ GetParticipantCount(r) < rooms[r].max_participants
    /\ ~ IsOnline(r, u)

NewParticipant(r, u) ==
    [ is_host   |-> (u = rooms[r].host_id),
      is_online |-> TRUE ]

\* Room.add_participant, run without interleaving
AddParticipant(r, u) ==
    IF ~ CanJoin(r, u) THEN participants
    ELSE IF FirstRow(r, u) # 0
    THEN [ participants EXCEPT ![r][u][FirstRow(r, u)].is_online = TRUE ]
    ELSE [ participants EXCEPT ![r][u] = Append(@, NewParticipant(r, u)) ]

----------------------------------------------------------------------------
(* create_room *)

\* a password is NULL or a text, the text a sequence of characters
NullPassword == [ is_null |-> TRUE, text |-> << >> ]

Text(chars) == [ is_null |-> FALSE, text |-> chars ]

MinPasswordLength == 4

\* sanitize_input on a text without tags: str.strip()
RECURSIVE StripLeft(_)
StripLeft(chars) ==
    IF chars # << >> /\ Head(chars) = " " THEN StripLeft(Tail(chars)) ELSE chars

RECURSIVE StripRight(_)
StripRight(chars) ==
    IF chars # << >> /\ chars[Len(chars)] = " "
    THEN StripRight(SubSeq(chars, 1, Len(chars) - 1))
    ELSE chars

SanitizeInput(chars) == StripRight(StripLeft(chars))

\* the passwords a request may carry: none, "abc", "abcd", " abc", "    "
RequestPasswords ==
    { NullPassword,
      Text(<<"a", "b", "c">>),
      Text(<<"a", "b", "c", "d">>),
      Text(<<" ", "a", "b", "c">>),
      Text(<<" ", " ", " ", " ">>) }

\* the room codes the generator can come up with
Codes == 1 .. 4

UsedCodes == { rooms[r].room_code : r \in 1 .. Len(rooms) }

\* the first code that is in no row: what generate_room_code returns when
\* its candidates come in ascending order
FreshCode == CHOOSE c \in Codes \ UsedCodes : \A d \in Codes \ UsedCodes : c <= d

\* the public room of the room specifications
PublicOptions == { <<FALSE, NullPassword>> }

CreateRoomOutcome(max_participants, duration_hours, is_private, password) ==
    IF max_participants < MinMaxParticipants \/ max_participants > MaxMaxParticipants
    THEN "InvalidMaxParticipants"
    ELSE IF duration_hours < MinDurationHours \/ duration_hours > MaxDurationHours
    THEN "InvalidDuration"
    ELSE IF is_private /\ ( password.is_null \/ Len(password.text) < MinPasswordLength )
    THEN "InvalidPassword"
    ELSE "ok"

\* the password is sanitized after its length was tested; a public room
\* stores none
NewRoom(host, max_participants, duration_hours, is_private, password, code) ==
    [ host_id          |-> host,
      room_code        |-> code,
      max_participants |-> max_participants,
      is_active        |-> TRUE,
      is_private       |-> is_private,
      password         |-> IF is_private THEN Text(SanitizeInput(password.text))
                           ELSE NullPassword,
      expires_at       |-> now + duration_hours * MinutesPerHour ]

\* the room is committed under a code that is in no row, then the host is
\* added as its first participant
CreateRoom(host, max_participants, duration_hours, is_private, password, code) ==
    /\ code \in Codes \ UsedCodes
    /\ IF CreateRoomOutcome(max_participants, duration_hours, is_private, password) = "ok"
       THEN /\ rooms' = Append(rooms, NewRoom(host, max_participants, duration_hours,
                                              is_private, password, code))
            /\ participants' =
                    Append(participants,
                           [ u \in RoomUsers |->
                                IF u = host
                                THEN << [ is_host |-> TRUE, is_online |-> TRUE ] >>
                                ELSE << >> ])
       ELSE UNCHANGED <<rooms, participants>>
    /\ UNCHANGED <<now, bookings, threads, reviews, joiners, chatVars>>

----------------------------------------------------------------------------
(* join_room, join_room_by_code, handle_join_room *)

\* the three ways in: REST by room id, REST by room code, realtime channel
Channels == { "id", "code", "socket" }

\* the request carries the password the room stores, so that the password
\* test of a private room passes
JoinOutcome(u, r, channel) ==
    IF r \notin RoomIds
    THEN IF channel = "socket" THEN "NotFoundOrExpired" ELSE "NotFound"
    ELSE IF ~ rooms[r].is_active
    THEN IF channel = "socket" THEN "NotFoundOrExpired" ELSE "NotFound"
    ELSE IF IsExpired(r)
    THEN IF channel = "socket" THEN "NotFoundOrExpired" ELSE "Expired"
    ELSE IF ~ CanJoin(r, u) THEN "CannotJoin"
    ELSE "ok"

\* the room_participants table the handler commits
JoinResult(u, r, channel) ==
    IF JoinOutcome(u, r, channel) = "ok" THEN AddParticipant(r, u) ELSE participants

JoinRoom(u, r, channel) ==
    /\ participants' = JoinResult(u, r, channel)
    /\ UNCHANGED <<now, bookings, threads, reviews, rooms, joiners, chatVars>>

----------------------------------------------------------------------------
(* leave_room, handle_leave_room *)

\* what Room.remove_participant answers
RemoveParticipant(r, u) == FirstRow(r, u) # 0

LeaveOutcome(u, r) ==
    IF r \notin RoomIds THEN "NotFound"
    ELSE IF RemoveParticipant(r, u) THEN "ok"
    ELSE "NotInRoom"

\* the room_participants table the handler commits
LeaveResult(u, r) ==
    IF LeaveOutcome(u, r) = "ok"
    THEN [ participants EXCEPT ![r][u][FirstRow(r, u)].is_online = FALSE ]
    ELSE participants

LeaveRoom(u, r) ==
    /\ participants' = LeaveResult(u, r)
    /\ UNCHANGED <<now, bookings, threads, reviews, rooms, joiners, chatVars>>

----------------------------------------------------------------------------
(* handle_disconnect *)

DisconnectResult(u) ==
    [ r \in RoomIds |->
        [ participants[r] EXCEPT ![u] =
            [ i \in 1 .. Len(@) |-> [ @[i] EXCEPT !.is_online = FALSE ] ] ] ]

HandleDisconnect(u) ==
    /\ participants' = DisconnectResult(u)
    /\ UNCHANGED <<now, bookings, threads, reviews, rooms, joiners, chatVars>>

----------------------------------------------------------------------------
(* update_room *)

\* a field the request does not carry
NoValue == 0 - 1

\* what a request carries for max_participants, is_private, password and
\* expires_at
UpdateMaxOptions == { NoValue, 2, 3 }

UpdatePrivateOptions == { "absent", "true", "false" }

UpdatePasswordOptions ==
    { [ present |-> FALSE, value |-> NullPassword ],
      [ present |-> TRUE, value |-> Text(<<"a", "b", "c">>) ],
      [ present |-> TRUE, value |-> Text(<<"a", "b", "c", "d">>) ] }

UpdateExpiryOptions == { NoTime, At(0, 9, 0), At(0, 10, 30) }

UpdateRequests ==
    [ max_participants : UpdateMaxOptions,
      is_private       : UpdatePrivateOptions,
      password         : UpdatePasswordOptions,
      expires_at       : UpdateExpiryOptions ]

\* is_private of the row once the request's is_private is applied
PrivateAfter(r, q) ==
    IF q.is_private = "absent" THEN rooms[r].is_private ELSE q.is_private = "true"

UpdateRoomOutcome(actor, r, q) ==
    IF r \notin RoomIds THEN "NotFound"
    ELSE IF rooms[r].host_id # actor THEN "PermissionDenied"
    ELSE IF /\ q.max_participants # NoValue
            /\ \/ q.max_participants < MinMaxParticipants
               \/ q.max_participants > MaxMaxParticipants
    THEN "InvalidMaxParticipants"
    ELSE IF /\ q.password.present
            /\ PrivateAfter(r, q)
            /\ Len(SanitizeInput(q.password.value.text)) < MinPasswordLength
    THEN "InvalidPassword"
    ELSE IF q.expires_at # NoTime /\ q.expires_at <= now THEN "InvalidExpiry"
    ELSE "ok"

\* the rooms table the handler commits; a request that is turned down
\* commits nothing
UpdateRoomResult(actor, r, q) ==
    IF UpdateRoomOutcome(actor, r, q) # "ok" THEN rooms
    ELSE [ rooms EXCEPT ![r] =
            [ @ EXCEPT
                !.max_participants =
                    IF q.max_participants # NoValue THEN q.max_participants ELSE @,
                !.is_private = PrivateAfter(r, q),
                !.password =
                    IF ~ q.password.present THEN @
                    ELSE IF PrivateAfter(r, q)
                    THEN Text(SanitizeInput(q.password.value.text))
                    ELSE NullPassword,
                !.expires_at =
                    IF q.expires_at # NoTime THEN q.expires_at ELSE @ ] ]

UpdateRoom(actor, r, q) ==
    /\ rooms' = UpdateRoomResult(actor, r, q)
    /\ UNCHANGED <<now, bookings, threads, reviews, participants, joiners, chatVars>>

----------------------------------------------------------------------------
(* delete_room, extend_room *)

DeleteRoomOutcome(actor, r) ==
    IF r \notin RoomIds THEN "NotFound"
    ELSE IF rooms[r].host_id # actor THEN "PermissionDenied"
    ELSE "ok"

DeleteRoomResult(actor, r) ==
    IF DeleteRoomOutcome(actor, r) = "ok"
    THEN [ rooms EXCEPT ![r].is_active = FALSE ]
    ELSE rooms

DeleteRoom(actor, r) ==
    /\ rooms' = DeleteRoomResult(actor, r)
    /\ UNCHANGED <<now, bookings, threads, reviews, participants, joiners, chatVars>>

ExtendRoomOutcome(actor, r, hours) ==
    IF r \notin RoomIds THEN "NotFound"
    ELSE IF rooms[r].host_id # actor THEN "PermissionDenied"
    ELSE IF hours < MinDurationHours \/ hours > MaxDurationHours THEN "InvalidHours"
    ELSE "ok"

ExtendRoomResult(actor, r, hours) ==
    IF ExtendRoomOutcome(actor, r, hours) = "ok"
    THEN [ rooms EXCEPT ![r].expires_at = @ + hours * MinutesPerHour ]
    ELSE rooms

ExtendRoom(actor, r, hours) ==
    /\ r \in RoomIds => rooms[r].expires_at + hours * MinutesPerHour <= LastExpiry
    /\ rooms' = ExtendRoomResult(actor, r, hours)
    /\ UNCHANGED <<now, bookings, threads, reviews, participants, joiners, chatVars>>

----------------------------------------------------------------------------
(* cleanup_expired_rooms *)

\* the query selecting the rooms at their expiry instant as well
ExpiredInInclusive(rs) ==
    { r \in 1 .. Len(rs) : rs[r].expires_at <= now /\ rs[r].is_active }

\* the rows the query of the task selects from a rooms table
ExpiredIn(rs) ==
    { r \in 1 .. Len(rs) : rs[r].expires_at < now /\ rs[r].is_active }

ExpiredRooms == ExpiredIn(rooms)

\* the orders in which the rows of a set may come back from the query
Orders(S) ==
    { o \in [ 1 .. Cardinality(S) -> S ] :
        \A i \in 1 .. Cardinality(S), j \in 1 .. Cardinality(S) :
            i # j => o[i] # o[j] }

\* the loop of the task over the selected rows, in the order given
RECURSIVE SweepLoop(_, _)
SweepLoop(rs, order) ==
    IF order = << >> THEN rs
    ELSE SweepLoop([ rs EXCEPT ![Head(order)].is_active = FALSE ], Tail(order))

CleanupExpiredRooms(order) ==
    /\ rooms' = SweepLoop(rooms, order)
    /\ UNCHANGED <<now, bookings, threads, reviews, participants, joiners, chatVars>>

----------------------------------------------------------------------------
(* join as the request threads run it: the checks of the handler, the checks
   and the lookup of add_participant, and the write with its commit are
   separate steps, and nothing orders the steps of two requests *)

\* unique_room_participant never refusing an insert
InsertRefusedNever(r, u) == FALSE

\* unique_room_participant: the insert of a second row for a pair is refused
InsertRefused(r, u) == participants[r][u] # << >>

IdleJoiner == [ pc |-> "idle", user_id |-> 0, room_id |-> 0, found |-> 0,
                outcome |-> "none" ]

\* handler: room lookup, is_active, is_expired, can_join
JoinCheck(t, u, r, channel) ==
    /\ joiners[t].pc = "idle"
    /\ LET outcome == JoinOutcome(u, r, channel) IN
        joiners' = [ joiners EXCEPT ![t] =
            [ pc      |-> IF outcome = "ok" THEN "checked" ELSE "done",
              user_id |-> u,
              room_id |-> r,
              found   |-> 0,
              outcome |-> IF outcome = "ok" THEN "none" ELSE outcome ] ]
    /\ UNCHANGED <<now, bookings, threads, reviews, rooms, participants, chatVars>>

\* add_participant: can_join again, then the lookup of the row
JoinLookup(t) ==
    /\ joiners[t].pc = "checked"
    /\ LET u == joiners[t].user_id
           r == joiners[t].room_id IN
        joiners' = [ joiners EXCEPT ![t] =
            IF CanJoin(r, u)
            THEN [ @ EXCEPT !.pc = "found", !.found = FirstRow(r, u) ]
            ELSE [ @ EXCEPT !.pc = "done", !.outcome = "FailedToJoin" ] ]
    /\ UNCHANGED <<now, bookings, threads, reviews, rooms, participants, chatVars>>

\* add_participant: the update of the row found, or the insert of a new row,
\* which unique_room_participant refuses when the pair has a row by now
JoinWrite(t) ==
    /\ joiners[t].pc = "found"
    /\ LET u == joiners[t].user_id
           r == joiners[t].room_id
           found == joiners[t].found IN
        IF found # 0
        THEN /\ participants' = [ participants EXCEPT ![r][u][found].is_online = TRUE ]
             /\ joiners' = [ joiners EXCEPT ![t].pc = "done", ![t].outcome = "ok" ]
        ELSE IF InsertRefused(r, u)
        THEN /\ participants' = participants
             /\ joiners' = [ joiners EXCEPT ![t].pc = "done",
                                            ![t].outcome = "IntegrityError" ]
        ELSE /\ participants' =
                    [ participants EXCEPT ![r][u] = Append(@, NewParticipant(r, u)) ]
             /\ joiners' = [ joiners EXCEPT ![t].pc = "done", ![t].outcome = "ok" ]
    /\ UNCHANGED <<now, bookings, threads, reviews, rooms, chatVars>>

----------------------------------------------------------------------------
(* send_message, handle_send_message, get_room_messages *)

\* REST and the realtime channel
SendChannels == { "rest", "socket" }

\* the message text is taken to be non-empty
SendOutcome(u, r, channel) ==
    IF r \notin RoomIds
    THEN IF channel = "rest" THEN "NotFound" ELSE "NotInRoom"
    ELSE IF ~ IsOnline(r, u) THEN "NotInRoom"
    ELSE "ok"

\* created_at is the reading of the clock taken when the row is flushed;
\* successive readings are taken to increase
NewMessage(u, r, reading) ==
    [ room_id |-> r, user_id |-> u, created_at |-> reading ]

\* the messages table the handler commits
SendResult(u, r, channel) ==
    IF SendOutcome(u, r, channel) = "ok"
    THEN Append(messages, NewMessage(u, r, stamp + 1))
    ELSE messages

\* the handler run without interleaving
SendMessage(u, r, channel) ==
    /\ messages' = SendResult(u, r, channel)
    /\ stamp' = IF SendOutcome(u, r, channel) = "ok" THEN stamp + 1 ELSE stamp
    /\ UNCHANGED <<now, bookings, threads, reviews, roomVars, posters, creators>>

IdlePoster == [ pc |-> "idle", user_id |-> 0, room_id |-> 0, created_at |-> 0 ]

\* the handler as a request thread runs it: the checks
PostCheck(t, u, r, channel) ==
    /\ posters[t].pc = "idle"
    /\ posters' = [ posters EXCEPT ![t] =
            [ pc         |-> IF SendOutcome(u, r, channel) = "ok"
                             THEN "checked" ELSE "done",
              user_id    |-> u,
              room_id    |-> r,
              created_at |-> 0 ] ]
    /\ UNCHANGED <<now, bookings, threads, reviews, roomVars, messages, stamp, creators>>

\* the flush of the new row, which reads the clock for created_at
PostStamp(t) ==
    /\ posters[t].pc = "checked"
    /\ stamp' = stamp + 1
    /\ posters' = [ posters EXCEPT ![t].pc = "stamped", ![t].created_at = stamp + 1 ]
    /\ UNCHANGED <<now, bookings, threads, reviews, roomVars, messages, creators>>

\* the commit, which makes the row visible to readers
PostCommit(t) ==
    /\ posters[t].pc = "stamped"
    /\ messages' = Append(messages, NewMessage(posters[t].user_id, posters[t].room_id,
                                               posters[t].created_at))
    /\ posters' = [ posters EXCEPT ![t].pc = "done" ]
    /\ UNCHANGED <<now, bookings, threads, reviews, roomVars, stamp, creators>>

\* the rows of a room in the table
RoomMessages(ms, r) == SelectSeq(ms, LAMBDA m : m.room_id = r)

\* a row put into a sequence ordered by created_at
RECURSIVE InsertByCreatedAt(_, _)
InsertByCreatedAt(m, sorted) ==
    IF sorted = << >> THEN << m >>
    ELSE IF m.created_at < Head(sorted).created_at THEN << m >> \o sorted
    ELSE << Head(sorted) >> \o InsertByCreatedAt(m, Tail(sorted))

RECURSIVE SortByCreatedAt(_)
SortByCreatedAt(ms) ==
    IF ms = << >> THEN << >>
    ELSE InsertByCreatedAt(Head(ms), SortByCreatedAt(Tail(ms)))

\* get_room_messages: the page of the latest rows by created_at, oldest
\* first; the page holds every row of the room
GetRoomMessages(ms, r) == SortByCreatedAt(RoomMessages(ms, r))

----------------------------------------------------------------------------
(* create_room as the request threads run it: the code is generated when the
   row is built, the row is committed later *)

IdleCreator == [ pc |-> "idle", host_id |-> 0, room_code |-> 0, outcome |-> "none" ]

\* Room.__init__: generate_room_code returns a candidate that is in no row
CreateGenerate(t, host, code) ==
    /\ creators[t].pc = "idle"
    /\ code \in Codes \ UsedCodes
    /\ creators' = [ creators EXCEPT ![t] =
            [ pc |-> "generated", host_id |-> host, room_code |-> code,
              outcome |-> "none" ] ]
    /\ UNCHANGED <<now, bookings, threads, reviews, roomVars, messages, stamp, posters>>

\* the commit of the row, which the unique index on room_code refuses when
\* the code is in a row by now, and the host's participant row
CreateCommit(t) ==
    /\ creators[t].pc = "generated"
    /\ IF creators[t].room_code \in UsedCodes
       THEN /\ creators' = [ creators EXCEPT ![t].pc = "done",
                                             ![t].outcome = "IntegrityError" ]
            /\ UNCHANGED <<rooms, participants>>
       ELSE /\ creators' = [ creators EXCEPT ![t].pc = "done", ![t].outcome = "ok" ]
            /\ rooms' = Append(rooms,
                    NewRoom(creators[t].host_id, 2, 1, FALSE, NullPassword,
                            creators[t].room_code))
            /\ participants' =
                    Append(participants,
                           [ u \in RoomUsers |->
                                IF u = creators[t].host_id
                                THEN << [ is_host |-> TRUE, is_online |-> TRUE ] >>
                                ELSE << >> ])
    /\ UNCHANGED <<now, bookings, threads, reviews, joiners, messages, stamp, posters>>

----------------------------------------------------------------------------
(* the clock *)

Advance ==
    /\ \E t \in NowInstants : t > now /\ now' = t
    /\ UNCHANGED <<bookings, threads, reviews, roomVars, chatVars>>

----------------------------------------------------------------------------

Init ==
    /\ now = At(0, 8, 59)
    /\ bookings = << >>
    /\ threads = [ t \in Threads |-> IdleThread ]
    /\ reviews = << >>
    /\ rooms = << >>
    /\ participants = << >>
    /\ joiners = [ t \in Threads |-> IdleJoiner ]
    /\ messages = << >>
    /\ stamp = 0
    /\ posters = [ t \in Threads |-> IdlePoster ]
    /\ creators = [ t \in Threads |-> IdleCreator ]

\* ids a request may name; those beyond the table name no row
RequestBookingIds == 1 .. MaxBookings

\* the create requests: every space, and the id of none, with the windows
\* that can be stored, and space 1 with the windows that are turned down
CreateRequests ==
    ( ( SpaceIds \cup { MissingSpace } ) \X RequestWindows )
        \cup ( { 1 } \X RejectedWindows )

\* the users whose requests can change a booking: its requester, the owner
\* of the spaces and the admin; every request of user 4 is turned down
Actors == { 1, 2, 3 }

\* the update requests, as <<start_time, end_time>>: no time at all, each
\* of the two windows that can be stored, a new start alone and a new end
\* alone
MoveRequests ==
    { <<NoTime, NoTime>>,
      <<At(1, 9, 0), At(1, 11, 0)>>,
      <<At(1, 11, 0), At(1, 11, 30)>>,
      <<At(1, 11, 0), NoTime>>,
      <<NoTime, At(1, 11, 0)>> }

Next ==
    \/ \E user \in Requesters, q \in CreateRequests :
            CreateBooking(user, q[1], q[2][1], q[2][2])
    \/ \E actor \in Actors, id \in RequestBookingIds, q \in MoveRequests :
            UpdateBooking(actor, id, q[1], q[2])
    \/ \E actor \in Actors, id \in RequestBookingIds, reason \in Reasons :
            CancelBooking(actor, id, reason)
    \/ \E actor \in Actors, id \in RequestBookingIds, intentStatus \in IntentStatuses :
            ProcessPayment(actor, id, intentStatus)
    \/ \E id \in RequestBookingIds : HandlePaymentSuccess(id)
    \/ \E id \in RequestBookingIds : HandlePaymentFailure(id)
    \/ \E actor \in Actors, id \in RequestBookingIds : CompleteBooking(actor, id)
    \/ Advance

Spec == Init /\ [][Next]_vars

\* bookings made, moved, cancelled and confirmed by the payment event
EditNext ==
    \/ \E user \in Requesters, q \in CreateRequests :
            CreateBooking(user, q[1], q[2][1], q[2][2])
    \/ \E actor \in Actors, id \in RequestBookingIds, q \in MoveRequests :
            UpdateBooking(actor, id, q[1], q[2])
    \/ \E actor \in Actors, id \in RequestBookingIds, reason \in Reasons :
            CancelBooking(actor, id, reason)
    \/ \E id \in RequestBookingIds : HandlePaymentSuccess(id)
    \/ Advance

EditSpec == Init /\ [][EditNext]_vars

\* the create requests of the life-cycle specification: space 1 from 09:00
\* to 11:00 of day 1 and space 2 from 10:30 to 11:30, the last instant of
\* the clock
LifeRequests ==
    { <<1, <<At(1, 9, 0), At(1, 11, 0)>> >>,
      <<2, <<At(1, 10, 30), At(1, 11, 30)>> >> }

\* bookings made, paid or failed to be paid, cancelled and completed
LifeNext ==
    \/ \E user \in Requesters, q \in LifeRequests :
            CreateBooking(user, q[1], q[2][1], q[2][2])
    \/ \E actor \in Actors, id \in RequestBookingIds, reason \in Reasons :
            CancelBooking(actor, id, reason)
    \/ \E actor \in Actors, id \in RequestBookingIds, intentStatus \in IntentStatuses :
            ProcessPayment(actor, id, intentStatus)
    \/ \E id \in RequestBookingIds : HandlePaymentSuccess(id)
    \/ \E id \in RequestBookingIds : HandlePaymentFailure(id)
    \/ \E actor \in Actors, id \in RequestBookingIds : CompleteBooking(actor, id)
    \/ Advance

LifeSpec == Init /\ [][LifeNext]_vars

\* windows of the review specification: one over at 11:00 of day 1 and one
\* over at 11:30, the last instant of the clock
ReviewWindows ==
    { <<At(1, 9, 0), At(1, 11, 0)>>,
      <<At(1, 10, 30), At(1, 11, 30)>> }

\* bookings made, paid or failed to be paid, completed and reviewed
ReviewNext ==
    \/ \E user \in Requesters, sid \in SpaceIds, w \in ReviewWindows :
            CreateBooking(user, sid, w[1], w[2])
    \/ \E id \in RequestBookingIds : HandlePaymentSuccess(id)
    \/ \E id \in RequestBookingIds : HandlePaymentFailure(id)
    \/ \E actor \in Users, id \in RequestBookingIds : CompleteBooking(actor, id)
    \/ \E actor \in Users, sid \in SpaceIds, id \in RequestBookingIds,
          rating \in Ratings :
            AddSpaceReview(actor, sid, id, rating)
    \/ Advance

ReviewSpec == Init /\ [][ReviewNext]_vars

\* the spaces booked in the payment specification
PaymentSpaceIds == { 1, 2 }

\* the window booked in the payment specification: 09:00 - 11:00 of day 1
PaymentWindows == { <<At(1, 9, 0), At(1, 11, 0)>> }

\* the requester of the bookings and the owner of the spaces
PaymentActors == { 1, 2 }

\* bookings made, paid, disputed, cancelled and completed
PaymentNext ==
    \/ \E user \in Requesters, sid \in PaymentSpaceIds, w \in PaymentWindows :
            CreateBooking(user, sid, w[1], w[2])
    \/ \E actor \in PaymentActors, id \in RequestBookingIds, reason \in Reasons :
            CancelBooking(actor, id, reason)
    \/ \E actor \in PaymentActors, id \in RequestBookingIds, intentStatus \in IntentStatuses :
            ProcessPayment(actor, id, intentStatus)
    \/ \E id \in RequestBookingIds : HandlePaymentSuccess(id)
    \/ \E id \in RequestBookingIds : HandlePaymentFailure(id)
    \/ \E id \in RequestBookingIds : HandleChargeback(id)
    \/ \E actor \in PaymentActors, id \in RequestBookingIds : CompleteBooking(actor, id)
    \/ Advance

PaymentSpec == Init /\ [][PaymentNext]_vars

\* windows of the slot specification: a night from 20:00 of day 0 to 10:00
\* of day 1, the two hours from 09:00 of day 1, the last two hours of day 1
SlotWindows ==
    { <<At(0, 20, 0), At(1, 10, 0)>>,
      <<At(1, 9, 0), At(1, 11, 0)>>,
      <<At(1, 19, 0), At(1, 21, 0)>> }

\* bookings of whole nights and days, made, paid, cancelled
SlotNext ==
    \/ \E user \in Requesters, sid \in SpaceIds, w \in SlotWindows :
            CreateBooking(user, sid, w[1], w[2])
    \/ \E actor \in Requesters, id \in RequestBookingIds, reason \in Reasons :
            CancelBooking(actor, id, reason)
    \/ \E id \in RequestBookingIds : HandlePaymentSuccess(id)
    \/ \E id \in RequestBookingIds : HandlePaymentFailure(id)
    \/ Advance

SlotSpec == Init /\ [][SlotNext]_vars

\* the clock of the room specifications
RoomAdvance ==
    /\ \E t \in RoomInstants : t > now /\ now' = t
    /\ UNCHANGED <<bookings, threads, reviews, roomVars, chatVars>>

\* the room handlers, each run without interleaving
RoomNext ==
    \/ \E host \in RoomHosts, max_participants \in MaxParticipantsOptions,
          duration_hours \in DurationOptions, o \in PublicOptions :
            /\ Len(rooms) < MaxRooms
            /\ CreateRoom(host, max_participants, duration_hours, o[1], o[2], FreshCode)
    \/ \E u \in RoomUsers, r \in RequestRoomIds, channel \in Channels :
            JoinRoom(u, r, channel)
    \/ \E u \in RoomUsers, r \in RequestRoomIds : LeaveRoom(u, r)
    \/ \E u \in RoomUsers : HandleDisconnect(u)
    \/ \E actor \in RoomUsers, r \in RequestRoomIds : DeleteRoom(actor, r)
    \/ \E actor \in RoomUsers, r \in RequestRoomIds, hours \in DurationOptions :
            ExtendRoom(actor, r, hours)
    \/ \E order \in Orders(ExpiredRooms) : CleanupExpiredRooms(order)
    \/ RoomAdvance

RoomSpec == Init /\ [][RoomNext]_vars

\* the join requests interleaved step by step, next to create_room and
\* leave_room
RoomConcNext ==
    \/ \E host \in RoomHosts, max_participants \in MaxParticipantsOptions,
          duration_hours \in DurationOptions, o \in PublicOptions :
            /\ Len(rooms) < MaxRooms
            /\ CreateRoom(host, max_participants, duration_hours, o[1], o[2], FreshCode)
    \/ \E t \in Threads, u \in RoomUsers, r \in RequestRoomIds, channel \in Channels :
            JoinCheck(t, u, r, channel)
    \/ \E t \in Threads : JoinLookup(t)
    \/ \E t \in Threads : JoinWrite(t)
    \/ \E u \in RoomUsers, r \in RequestRoomIds : LeaveRoom(u, r)

RoomConcSpec == Init /\ [][RoomConcNext]_vars

\* ids a request of the sweep specification may name
SweepRoomIds == 1 .. MaxSweepRooms

\* several rooms with their hosts, the expiry task and the clock
SweepNext ==
    \/ \E host \in RoomHosts, max_participants \in MaxParticipantsOptions,
          duration_hours \in DurationOptions, o \in PublicOptions :
            /\ Len(rooms) < MaxSweepRooms
            /\ CreateRoom(host, max_participants, duration_hours, o[1], o[2], FreshCode)
    \/ \E u \in RoomHosts, r \in SweepRoomIds : LeaveRoom(u, r)
    \/ \E actor \in RoomHosts, r \in SweepRoomIds : DeleteRoom(actor, r)
    \/ \E actor \in RoomHosts, r \in SweepRoomIds, hours \in DurationOptions :
            ExtendRoom(actor, r, hours)
    \/ \E order \in Orders(ExpiredRooms) : CleanupExpiredRooms(order)
    \/ RoomAdvance

SweepSpec == Init /\ [][SweepNext]_vars

\* what create_room is asked for in the update specification
PrivacyOptions ==
    { <<FALSE, NullPassword>>,
      <<TRUE, Text(<<"a", "b", "c">>)>>,
      <<TRUE, Text(<<"a", "b", "c", "d">>)>>,
      <<TRUE, Text(<<" ", " ", " ", " ">>)>> }

CreateMaxOptions == { 3 }

\* the room handlers with update_room, each run without interleaving
UpdateNext ==
    \/ \E host \in RoomHosts, max_participants \in CreateMaxOptions,
          duration_hours \in DurationOptions, o \in PrivacyOptions :
            /\ Len(rooms) < MaxRooms
            /\ CreateRoom(host, max_participants, duration_hours, o[1], o[2], FreshCode)
    \/ \E u \in RoomUsers, r \in RequestRoomIds : JoinRoom(u, r, "id")
    \/ \E u \in RoomUsers, r \in RequestRoomIds : LeaveRoom(u, r)
    \/ \E u \in RoomUsers : HandleDisconnect(u)
    \/ \E actor \in RoomUsers, r \in RequestRoomIds, q \in UpdateRequests :
            UpdateRoom(actor, r, q)
    \/ \E actor \in RoomHosts, r \in RequestRoomIds, hours \in DurationOptions :
            ExtendRoom(actor, r, hours)
    \/ \E order \in Orders(ExpiredRooms) : CleanupExpiredRooms(order)
    \/ RoomAdvance

UpdateSpec == Init /\ [][UpdateNext]_vars

\* the host and one more user
ChatUsers == { 1, 2 }

\* rooms made, joined, left, closed and swept, and the messages sent to
\* them, by handlers run whole and by request threads interleaved
ChatNext ==
    \/ \E host \in RoomHosts, max_participants \in MaxParticipantsOptions,
          duration_hours \in DurationOptions, o \in PublicOptions :
            /\ Len(rooms) < MaxRooms
            /\ CreateRoom(host, max_participants, duration_hours, o[1], o[2], FreshCode)
    \/ \E u \in ChatUsers, r \in RequestRoomIds : JoinRoom(u, r, "id")
    \/ \E u \in ChatUsers, r \in RequestRoomIds : LeaveRoom(u, r)
    \/ \E actor \in RoomHosts, r \in RequestRoomIds : DeleteRoom(actor, r)
    \/ \E order \in Orders(ExpiredRooms) : CleanupExpiredRooms(order)
    \/ \E u \in ChatUsers, r \in RequestRoomIds, channel \in SendChannels :
            /\ stamp < MaxThreads
            /\ SendMessage(u, r, channel)
    \/ \E t \in Threads, u \in ChatUsers, r \in RequestRoomIds,
          channel \in SendChannels :
            /\ stamp < MaxThreads
            /\ PostCheck(t, u, r, channel)
    \/ \E t \in Threads : PostStamp(t)
    \/ \E t \in Threads : PostCommit(t)
    \/ RoomAdvance

ChatSpec == Init /\ [][ChatNext]_vars

\* create_room requests interleaved
CodeNext ==
    \/ \E t \in Threads, host \in RoomHosts, code \in Codes :
            /\ Len(rooms) + Cardinality({ c \in Threads : creators[c].pc = "generated" })
                    < MaxSweepRooms
            /\ CreateGenerate(t, host, code)
    \/ \E t \in Threads : CreateCommit(t)
    \/ RoomAdvance

CodeSpec == Init /\ [][CodeNext]_vars

\* the request threads of create_booking, interleaved step by step
ConcNext ==
    \/ \E t \in Threads, user \in Requesters, sid \in SpaceIds,
          w \in RequestWindows :
            CreateCheck(t, user, sid, w[1], w[2])
    \/ \E t \in Threads, intentOk \in BOOLEAN : CreateInsert(t, intentOk)

ConcSpec == Init /\ [][ConcNext]_vars

----------------------------------------------------------------------------
(* Notions the properties are stated in *)

\* a booking that blocks its window
Active(b) == b.status \in { "pending", "confirmed" }

\* half-open overlap of [s1, e1) and [s2, e2)
Overlap(s1, e1, s2, e2) == s1 < e2 /\ s2 < e1

Owner(b) == spaces[b.space_id].owner_id

DayMinutes == 24 * 60

\* the windows availability is asked for
QueryInstants ==
    StartInstants \cup EndInstants \cup { At(1, 8, 0), At(1, 10, 0), At(1, 12, 0) }

----------------------------------------------------------------------------
\* C1: for each space, no two distinct bookings that are pending or
\* confirmed have overlapping half-open windows, in every reachable state.
NoDoubleBooking ==
    \A i \in BookingIds, j \in BookingIds :
        ( /\ i # j
          /\ bookings[i].space_id = bookings[j].space_id
          /\ Active(bookings[i])
          /\ Active(bookings[j]) )
        => ~ Overlap(bookings[i].start_time, bookings[i].end_time,
                     bookings[j].start_time, bookings[j].end_time)

----------------------------------------------------------------------------
\* C2: of two create requests for the same space and overlapping windows
\* that run concurrently, exactly one inserts a booking and the other is
\* answered ResourceUnavailable, whatever the order of their steps.
PastValidation(t) ==
    /\ threads[t].pc = "done"
    /\ threads[t].outcome \in { "ok", "PaymentIntentFailed", "ResourceUnavailable" }

Inserted(t) == threads[t].outcome \in { "ok", "PaymentIntentFailed" }

ConcurrentCreateExclusive ==
    \A t1 \in Threads, t2 \in Threads :
        ( /\ t1 # t2
          /\ PastValidation(t1)
          /\ PastValidation(t2)
          /\ threads[t1].space_id = threads[t2].space_id
          /\ Overlap(threads[t1].start_time, threads[t1].end_time,
                     threads[t2].start_time, threads[t2].end_time) )
        => /\ Inserted(t1) # Inserted(t2)
           /\ ~ Inserted(t1) => threads[t1].outcome = "ResourceUnavailable"
           /\ ~ Inserted(t2) => threads[t2].outcome = "ResourceUnavailable"

----------------------------------------------------------------------------
\* C3: for every space and every window with start < end, is_available
\* answers false exactly when a pending or confirmed booking of that space
\* overlaps the window (half-open); bookings of other spaces and cancelled
\* or completed bookings do not count.
AvailabilityMatchesOverlap ==
    \A sid \in SpaceIds, s \in QueryInstants, e \in QueryInstants :
        s < e =>
            ( IsAvailable(sid, s, e)
              <=> ~ \E i \in BookingIds :
                        /\ bookings[i].space_id = sid
                        /\ Active(bookings[i])
                        /\ Overlap(bookings[i].start_time, bookings[i].end_time, s, e) )

\* space 1 is blocked by a booking that lies strictly inside the window asked
\* for, while space 2 holds only a cancelled booking in it and is free
AvailabilityWitness ==
    /\ \E i \in BookingIds :
        /\ bookings[i].space_id = 1
        /\ Active(bookings[i])
        /\ bookings[i].start_time = At(1, 11, 0)
        /\ bookings[i].end_time = At(1, 11, 30)
    /\ \E j \in BookingIds :
        /\ bookings[j].space_id = 2
        /\ bookings[j].status = "cancelled"
    /\ ~ IsAvailable(1, At(1, 10, 0), At(1, 12, 0))
    /\ IsAvailable(2, At(1, 10, 0), At(1, 12, 0))
    /\ IsAvailable(1, At(1, 10, 0), At(1, 11, 0))

----------------------------------------------------------------------------
\* C4: a create that stores a booking stores it pending and unpaid with
\* total = hourly rate x duration in hours, to the cent; after an update that
\* changes the window the stored total is rate x the new duration.
TotalIsRateTimesDuration(b) ==
    LET exact60 == spaces[b.space_id].hourly_rate * (b.end_time - b.start_time)
        diff == 60 * b.total_amount - exact60
    IN  2 * diff <= 60 /\ 2 * diff >= 0 - 60

----------------------------------------------------------------------------
\* C5: a payment result (process_payment, the payment-success event, the
\* payment-failure event) acts on a pending booking only: success makes it
\* confirmed/paid, failure cancelled/failed; on a confirmed, cancelled or
\* completed booking it is refused and changes nothing.
PaymentStep(id) ==
    \/ HandlePaymentSuccess(id)
    \/ HandlePaymentFailure(id)
    \/ \E actor \in Users, intentStatus \in IntentStatuses :
            ProcessPayment(actor, id, intentStatus)

PaymentResultOnlyFromPending ==
    [][ \A id \in BookingIds :
            PaymentStep(id) =>
                IF bookings[id].status = "pending"
                THEN \/ UNCHANGED bookings
                     \/ bookings' = [ bookings EXCEPT ![id].status = "confirmed",
                                                      ![id].payment_status = "paid" ]
                     \/ bookings' = [ bookings EXCEPT ![id].status = "cancelled",
                                                      ![id].payment_status = "failed" ]
                ELSE UNCHANGED bookings
      ]_vars

----------------------------------------------------------------------------
\* C6: a cancel goes through only for a pending or confirmed booking and only
\* while now < start - 24h: the requester's cancel is accepted at
\* start = now + 24h + 1 minute and refused from start = now + 24h on; a cancel
\* refused for status or for time leaves the booking as it was.
Cancellable(b) == Active(b) /\ now < b.start_time - DayMinutes

CancelOnlyInTime ==
    \A id \in BookingIds :
        LET b == bookings[id] IN
            /\ ( CancelOutcome(b.user_id, id) = "ok" ) <=> Cancellable(b)
            /\ ~ Active(b) => CancelOutcome(b.user_id, id) = "InvalidTransition"
            /\ ( Active(b) /\ now >= b.start_time - DayMinutes )
                    => CancelOutcome(b.user_id, id) = "TooLateToCancel"
            /\ \A actor \in Users, reason \in Reasons :
                /\ CancelResult(actor, id, reason) # bookings => Cancellable(b)
                /\ CancelOutcome(actor, id) \in { "InvalidTransition", "TooLateToCancel" }
                        => CancelResult(actor, id, reason) = bookings

\* a cancel went through one minute before the 24-hour limit, and another
\* booking with the same start can still be cancelled
CancelBoundaryWitness ==
    /\ now = At(0, 8, 59)
    /\ \E i \in BookingIds :
        /\ bookings[i].start_time = now + DayMinutes + 1
        /\ bookings[i].status = "cancelled"
        /\ bookings[i].cancellation_reason # NullReason
        /\ bookings[i].payment_status \in { "unpaid", "refunded" }
    /\ \E j \in BookingIds :
        /\ bookings[j].start_time = now + DayMinutes + 1
        /\ Active(bookings[j])
        /\ CancelOutcome(bookings[j].user_id, j) = "ok"

----------------------------------------------------------------------------
\* C7 as claimed: for a pending or confirmed booking more than 24h before
\* its start, cancel is permitted exactly when the actor is the requester,
\* the owner of the space or an admin; anybody else gets PermissionDenied.
CancelPermittedForOwner ==
    \A id \in BookingIds, actor \in Users :
        Cancellable(bookings[id]) =>
            IF \/ actor = bookings[id].user_id
               \/ actor = Owner(bookings[id])
               \/ Role(actor) = "admin"
            THEN CancelOutcome(actor, id) = "ok"
            ELSE CancelOutcome(actor, id) = "PermissionDenied"

\* C7 as amended: for a pending or confirmed booking more than 24h before
\* its start, cancel is permitted exactly when the actor is the requester
\* or an admin; any other actor, the owner of the space included, gets
\* PermissionDenied and the booking is unchanged.

CancelPermittedForRequesterOrAdmin ==
    \A id \in BookingIds, actor \in Users, reason \in Reasons :
        Cancellable(bookings[id]) =>
            IF actor = bookings[id].user_id \/ Role(actor) = "admin"
            THEN /\ CancelOutcome(actor, id) = "ok"
                 /\ CancelResult(actor, id, reason)[id].status = "cancelled"
            ELSE /\ CancelOutcome(actor, id) = "PermissionDenied"
                 /\ CancelResult(actor, id, reason) = bookings

\* a cancellable booking that its requester and the admin may cancel while
\* the owner of the space and a third user are refused
CancelPermissionWitness ==
    \E id \in BookingIds :
        /\ Cancellable(bookings[id])
        /\ bookings[id].status = "confirmed"
        /\ Owner(bookings[id]) # bookings[id].user_id
        /\ CancelOutcome(bookings[id].user_id, id) = "ok"
        /\ CancelOutcome(3, id) = "ok"
        /\ CancelOutcome(Owner(bookings[id]), id) = "PermissionDenied"
        /\ CancelOutcome(4, id) = "PermissionDenied"

----------------------------------------------------------------------------
\* C8: a cancel that goes through sets the status to cancelled, turns a
\* payment status paid into refunded and leaves any other payment status,
\* the window and the total as they were.

CancelEffect ==
    \A id \in BookingIds, actor \in Users, reason \in Reasons :
        LET after == CancelResult(actor, id, reason) IN
            after # bookings =>
                /\ after[id].status = "cancelled"
                /\ after[id].payment_status =
                        IF bookings[id].payment_status = "paid"
                        THEN "refunded" ELSE bookings[id].payment_status
                /\ after[id].start_time = bookings[id].start_time
                /\ after[id].end_time = bookings[id].end_time
                /\ after[id].total_amount = bookings[id].total_amount
                /\ after[id].space_id = bookings[id].space_id
                /\ after[id].user_id = bookings[id].user_id
                /\ Len(after) = Len(bookings)
                /\ \A other \in BookingIds :
                        other # id => after[other] = bookings[other]

\* the two-hour booking at 100.00, paid, then cancelled: cancelled/refunded;
\* next to it a booking cancelled unpaid, still unpaid
CancelRefundWitness ==
    /\ \E i \in BookingIds :
        /\ bookings[i].space_id = 1
        /\ bookings[i].total_amount = 10000
        /\ bookings[i].status = "cancelled"
        /\ bookings[i].payment_status = "refunded"
        /\ bookings[i].cancellation_reason # NullReason
    /\ \E j \in BookingIds :
        /\ bookings[j].status = "cancelled"
        /\ bookings[j].payment_status = "unpaid"
        /\ bookings[j].cancellation_reason # NullReason

----------------------------------------------------------------------------
CompleteMayGoThrough(actor, id) ==
    /\ bookings[id].status = "confirmed"
    /\ now >= bookings[id].end_time
    /\ ( actor = Owner(bookings[id]) \/ Role(actor) = "admin" )

----------------------------------------------------------------------------
\* C10: an update changes the window of a booking only while the booking is
\* pending and only when sent by its requester; an update of a confirmed,
\* cancelled or completed booking, or by anybody else (owner, admin, third
\* user), leaves start, end and total as they were.
WindowOf(b) == <<b.start_time, b.end_time, b.total_amount>>

WindowChangesOnlyByRequesterWhilePending ==
    \A id \in BookingIds, actor \in Users,
       startOpt \in StartOptions, endOpt \in EndOptions :
        LET after == UpdateResult(actor, id, startOpt, endOpt) IN
            /\ ( bookings[id].status # "pending" \/ actor # bookings[id].user_id )
                    => WindowOf(after[id]) = WindowOf(bookings[id])
            /\ \A other \in BookingIds :
                    other # id => WindowOf(after[other]) = WindowOf(bookings[other])

\* a pending booking in a half-hour window, which only an update stores,
\* that its requester can move again while owner, admin and the third user
\* are answered without effect
WindowMovedWitness ==
    \E id \in BookingIds :
        /\ bookings[id].status = "pending"
        /\ bookings[id].start_time = At(1, 11, 0)
        /\ bookings[id].end_time = At(1, 11, 30)
        /\ UpdateOutcome(bookings[id].user_id, id, At(1, 9, 0), At(1, 11, 0)) = "ok"
        /\ UpdateOutcome(2, id, At(1, 9, 0), At(1, 11, 0)) = "ok"
        /\ UpdateOutcome(3, id, At(1, 9, 0), At(1, 11, 0)) = "ok"
        /\ UpdateOutcome(4, id, At(1, 9, 0), At(1, 11, 0)) = "PermissionDenied"

----------------------------------------------------------------------------
\* C11: create turns down, adding no booking, every request whose start is
\* before now, whose window is shorter than 1 hour or longer than 24 hours,
\* whose start hour is before 9 or end hour after 21, or whose space is
\* missing, inactive or not approved; each cause has a reason of its own: a
\* reason is given only when its cause is present, and a request with one
\* cause gets that cause's reason.
ProbeSpaceIds == SpaceIds \cup { MissingSpace }

ProbeWindows == RequestWindows \cup RejectedWindows \cup BoundaryWindows

SpaceMissing(sid) ==
    IF sid \in SpaceIds
    THEN ~ spaces[sid].is_active \/ ~ spaces[sid].is_approved
    ELSE TRUE

CreateRejections ==
    \A user \in Requesters, sid \in ProbeSpaceIds, w \in ProbeWindows :
        LET s == w[1]
            e == w[2]
            past == s < now
            short == e - s < 60
            long == e - s > DayMinutes
            outside == (s \div 60) % 24 < 9 \/ (e \div 60) % 24 > 21
            out == CreateOutcome(sid, s, e)
        IN  /\ ( SpaceMissing(sid) \/ past \/ short \/ long \/ outside )
                => /\ out # "ok"
                   /\ CreateResult(user, sid, s, e) = bookings
            /\ ( out = "NotFound" ) <=> SpaceMissing(sid)
            /\ out = "InThePast" => past
            /\ out = "TooShort" => short
            /\ out = "TooLong" => long
            /\ out = "OutsideBusinessHours" => outside
            /\ ( ~ SpaceMissing(sid) /\ s < e ) =>
                /\ ( past /\ ~ short /\ ~ long /\ ~ outside ) => out = "InThePast"
                /\ ( ~ past /\ short /\ ~ outside ) => out = "TooShort"
                /\ ( ~ past /\ long /\ ~ outside ) => out = "TooLong"
                /\ ( ~ past /\ ~ short /\ ~ long /\ outside )
                        => out = "OutsideBusinessHours"

\* with bookings stored and their day over, the two-hour window of day 1 is
\* in the past while the windows of day 2 are turned down one for each
\* cause, and the windows on the limits pass
CreateRejectionWitness ==
    /\ now = At(1, 11, 30)
    /\ Len(bookings) = MaxBookings
    /\ CreateOutcome(1, At(1, 9, 0), At(1, 11, 0)) = "InThePast"
    /\ CreateOutcome(1, At(2, 9, 0), At(2, 9, 59)) = "TooShort"
    /\ CreateOutcome(1, At(2, 9, 0), At(3, 9, 1)) = "TooLong"
    /\ CreateOutcome(1, At(2, 8, 59), At(2, 10, 0)) = "OutsideBusinessHours"
    /\ CreateOutcome(1, At(2, 20, 0), At(2, 22, 0)) = "OutsideBusinessHours"
    /\ CreateOutcome(3, At(2, 9, 0), At(2, 10, 0)) = "NotFound"
    /\ CreateOutcome(4, At(2, 9, 0), At(2, 10, 0)) = "NotFound"
    /\ CreateOutcome(MissingSpace, At(2, 9, 0), At(2, 10, 0)) = "NotFound"
    /\ CreateOutcome(1, At(2, 9, 0), At(2, 10, 0)) = "ok"
    /\ CreateOutcome(1, At(2, 9, 0), At(3, 9, 0)) = "ok"

----------------------------------------------------------------------------
\* C12: a review is added for a booking only when the booking is completed,
\* now > end and the booking has no review yet; in every reachable state no
\* booking has more than one review.
ReviewOnlyOncePerCompletedBooking ==
    /\ \A id \in BookingIds : Cardinality(ReviewsOf(id)) <= 1
    /\ \A i \in 1 .. Len(reviews) : reviews[i].booking_id \in BookingIds
    /\ \A actor \in Users, sid \in SpaceIds, id \in RequestBookingIds,
          rating \in Ratings :
            LET after == AddReviewResult(actor, sid, id, rating) IN
                after # reviews =>
                    /\ id \in BookingIds
                    /\ bookings[id].status = "completed"
                    /\ now > bookings[id].end_time
                    /\ \A i \in 1 .. Len(reviews) : reviews[i].booking_id # id
                    /\ Len(after) = Len(reviews) + 1
                    /\ SubSeq(after, 1, Len(reviews)) = reviews
                    /\ after[Len(after)].booking_id = id

\* the booking that ended at 11:00 has its review and takes no second one,
\* while the booking completed at its end instant 11:30 cannot be reviewed
\* yet
ReviewWitness ==
    \E i \in BookingIds, j \in BookingIds :
        /\ bookings[i].status = "completed"
        /\ bookings[i].end_time < now
        /\ Cardinality(ReviewsOf(i)) = 1
        /\ AddReviewOutcome(bookings[i].user_id, bookings[i].space_id, i, 5)
                = "CannotBeReviewed"
        /\ bookings[j].status = "completed"
        /\ bookings[j].end_time = now
        /\ ReviewsOf(j) = { }
        /\ AddReviewOutcome(bookings[j].user_id, bookings[j].space_id, j, 5)
                = "CannotBeReviewed"

----------------------------------------------------------------------------
\* C13: for a space, a date and a slot duration d >= 1 hour,
\* get_availability_slots returns, in ascending order of start, exactly the
\* windows [h, h + d) with h on the hour from 09:00 and h + d <= 21:00 that
\* overlap no pending or confirmed booking of the space, i.e. the hourly
\* candidates for which is_available answers true.
SlotDays == { 1 }

SlotDurations == { 1, 2, 12, 13 }

RECURSIVE FreeCandidates(_, _, _, _)
FreeCandidates(sid, day, d, h) ==
    IF h + d > 21 THEN << >>
    ELSE LET s == (day * 24 + h) * 60
             e == (day * 24 + h + d) * 60
             free == ~ \E i \in BookingIds :
                        /\ bookings[i].space_id = sid
                        /\ Active(bookings[i])
                        /\ Overlap(bookings[i].start_time, bookings[i].end_time, s, e)
         IN ( IF free THEN << <<s, e>> >> ELSE << >> )
            \o FreeCandidates(sid, day, d, h + 1)

SlotsAreTheFreeCandidates ==
    \A sid \in SpaceIds, day \in SlotDays, d \in SlotDurations :
        /\ GetAvailabilitySlots(sid, day, d) = FreeCandidates(sid, day, d, 9)
        /\ \A k \in 1 .. Len(GetAvailabilitySlots(sid, day, d)) :
                LET slot == GetAvailabilitySlots(sid, day, d)[k] IN
                    IsAvailable(sid, slot[1], slot[2])

----------------------------------------------------------------------------
\* C14 as claimed: a join, by id, by code or over the realtime channel,
\* goes through only if the room has is_active = true and now < expires_at.
JoinOnlyBeforeExpiry ==
    \A u \in RoomUsers, r \in RequestRoomIds, channel \in Channels :
        ( JoinOutcome(u, r, channel) = "ok" \/ JoinResult(u, r, channel) # participants )
        => /\ r \in RoomIds
           /\ rooms[r].is_active
           /\ now < rooms[r].expires_at

\* C14 as amended: a join goes through only if the room has is_active = true
\* and now <= expires_at (the expiry instant itself is still in time), and
\* it does go through then for a user who is not online while the room is
\* below its capacity; a room that is not active answers NotFound and a room
\* past its expiry answers Expired (over the realtime channel both answer
\* one "not found or expired"), with no participant row made or changed; a
\* room that is not active never becomes active again, so every later join
\* fails as well.
JoinRefusedState ==
    \A u \in RoomUsers, r \in RequestRoomIds, channel \in Channels :
        LET out == JoinOutcome(u, r, channel)
            after == JoinResult(u, r, channel)
        IN  /\ ( out = "ok" \/ after # participants )
                => /\ r \in RoomIds
                   /\ rooms[r].is_active
                   /\ now <= rooms[r].expires_at
            /\ r \notin RoomIds => out \in { "NotFound", "NotFoundOrExpired" }
            /\ r \in RoomIds =>
                /\ ~ rooms[r].is_active
                    => /\ out = IF channel = "socket"
                                THEN "NotFoundOrExpired" ELSE "NotFound"
                       /\ after = participants
                /\ ( rooms[r].is_active /\ now > rooms[r].expires_at )
                    => /\ out = IF channel = "socket"
                                THEN "NotFoundOrExpired" ELSE "Expired"
                       /\ after = participants
                /\ ( /\ rooms[r].is_active
                     /\ now <= rooms[r].expires_at
                     /\ GetParticipantCount(r) < rooms[r].max_participants
                     /\ ~ IsOnline(r, u) )
                    => /\ out = "ok"
                       /\ Len(after[r][u]) = 1
                       /\ after[r][u][1].is_online

JoinOnlyWhileActive ==
    /\ [] JoinRefusedState
    /\ [][ \A r \in RoomIds : ~ rooms[r].is_active => ~ rooms'[r].is_active ]_vars

\* an hour and a minute after it was made for one hour, the room is past
\* its expiry and no longer active, and the user who was in it before is
\* turned away on every channel
JoinAfterSweepWitness ==
    /\ now = At(0, 10, 0)
    /\ Len(rooms) = 1
    /\ rooms[1].expires_at = At(0, 9, 59)
    /\ ~ rooms[1].is_active
    /\ ExpiredRooms = { }
    /\ Len(participants[1][2]) = 1
    /\ ~ participants[1][2][1].is_online
    /\ JoinOutcome(2, 1, "id") = "NotFound"
    /\ JoinOutcome(2, 1, "code") = "NotFound"
    /\ JoinOutcome(2, 1, "socket") = "NotFoundOrExpired"
    /\ JoinOutcome(3, 1, "id") = "NotFound"

----------------------------------------------------------------------------
\* C15: when as many participants are online as the room admits, a join by
\* a user who is not online in the room is turned down on every channel and
\* leaves every participant row as it was; in a room that is active and not
\* expired the answer is the "cannot join (full ...)" one.
JoinAtCapacityRefused ==
    \A u \in RoomUsers, r \in RoomIds, channel \in Channels :
        ( GetParticipantCount(r) >= rooms[r].max_participants /\ ~ IsOnline(r, u) )
        => /\ JoinOutcome(u, r, channel) # "ok"
           /\ JoinResult(u, r, channel) = participants
           /\ ( rooms[r].is_active /\ ~ IsExpired(r) )
               => JoinOutcome(u, r, channel) = "CannotJoin"

\* the room for two holds its host and user 2 online, and user 3, who has
\* no row, is turned down
JoinAtCapacityWitness ==
    /\ Len(rooms) = 1
    /\ rooms[1].is_active
    /\ ~ IsExpired(1)
    /\ rooms[1].max_participants = 2
    /\ GetParticipantCount(1) = 2
    /\ participants[1][3] = << >>
    /\ JoinOutcome(3, 1, "id") = "CannotJoin"
    /\ JoinOutcome(3, 1, "socket") = "CannotJoin"
    /\ JoinResult(3, 1, "id") = participants

----------------------------------------------------------------------------
\* C16 as claimed: in a room that is active and not expired, a join by a
\* user who is already online in it goes through, whatever the number of
\* online participants, leaves that number as it is and adds no second row.
RejoinOfOnlineSucceeds ==
    \A u \in RoomUsers, r \in RoomIds, channel \in Channels :
        ( rooms[r].is_active /\ ~ IsExpired(r) /\ IsOnline(r, u) )
        => /\ JoinOutcome(u, r, channel) = "ok"
           /\ Cardinality(OnlineRows(JoinResult(u, r, channel), r))
                  = GetParticipantCount(r)
           /\ Len(JoinResult(u, r, channel)[r][u]) = 1

----------------------------------------------------------------------------
\* C17 as claimed: with joins interleaved, the number of online participants
\* of a room never exceeds its max_participants (of two joins by different
\* users that find one place left, at most one goes through).
ConcurrentJoinWithinCapacity ==
    \A r \in RoomIds : GetParticipantCount(r) <= rooms[r].max_participants

----------------------------------------------------------------------------
\* C18 as claimed: a leave by an online participant sets the row offline
\* and deletes nothing; a leave by a user whose row is already offline
\* changes nothing and answers "not in room".
LeaveTwiceReportsNotInRoom ==
    \A u \in RoomUsers, r \in RoomIds :
        /\ IsOnline(r, u)
            => /\ LeaveOutcome(u, r) = "ok"
               /\ Len(LeaveResult(u, r)[r][u]) = Len(participants[r][u])
               /\ ~ LeaveResult(u, r)[r][u][1].is_online
        /\ ( participants[r][u] # << >> /\ ~ IsOnline(r, u) )
            => /\ LeaveOutcome(u, r) = "NotInRoom"
               /\ LeaveResult(u, r) = participants

----------------------------------------------------------------------------
\* C19: the expiry sweep sets is_active to false for exactly the rooms with
\* expires_at < now and is_active = true and changes no other field and no
\* other room; a second run at the same instant finds no room and changes
\* nothing; the result is the same in whatever order the rooms are taken.
SweepDeactivatesExactlyExpired ==
    \A order \in Orders(ExpiredRooms) :
        LET after == SweepLoop(rooms, order) IN
            /\ Len(after) = Len(rooms)
            /\ \A r \in RoomIds :
                   after[r] = IF rooms[r].expires_at < now /\ rooms[r].is_active
                              THEN [ rooms[r] EXCEPT !.is_active = FALSE ]
                              ELSE rooms[r]
            /\ ExpiredIn(after) = { }
            /\ \A again \in Orders(ExpiredIn(after)) : SweepLoop(after, again) = after
            /\ \A other \in Orders(ExpiredRooms) : SweepLoop(rooms, other) = after

\* of two rooms, the one past its expiry is no longer active while the one
\* still in time is, and a run of the sweep now finds nothing to change
SweepWitness ==
    /\ Len(rooms) = 2
    /\ \E r1 \in RoomIds, r2 \in RoomIds :
          /\ rooms[r1].expires_at < now
          /\ ~ rooms[r1].is_active
          /\ rooms[r2].expires_at > now
          /\ rooms[r2].is_active
    /\ ExpiredRooms = { }
    /\ SweepLoop(rooms, << >>) = rooms

----------------------------------------------------------------------------
\* C20: with joins interleaved, a room holds at most one participant row
\* per user; a join by a user who has a row sets that row online and adds
\* none, and of two interleaved joins by one user without a row the second
\* insert is refused by the storage.
OneRowPerRoomAndUser ==
    \A r \in RoomIds, u \in RoomUsers :
        /\ Len(participants[r][u]) <= 1
        /\ participants[r][u] # << >>
            => /\ Len(AddParticipant(r, u)[r][u]) = 1
               /\ CanJoin(r, u) => AddParticipant(r, u)[r][u][1].is_online
               /\ \A v \in RoomUsers \ { u } :
                      AddParticipant(r, u)[r][v] = participants[r][v]

\* two joins of user 2 to room 1 ran interleaved: one inserted the row, the
\* insert of the other was refused, and the room holds one row of user 2
SameUserJoinWitness ==
    /\ Len(rooms) = 1
    /\ \E t1 \in 1 .. MaxThreads, t2 \in 1 .. MaxThreads :
          /\ joiners[t1] = [ pc |-> "done", user_id |-> 2, room_id |-> 1,
                             found |-> 0, outcome |-> "ok" ]
          /\ joiners[t2] = [ pc |-> "done", user_id |-> 2, room_id |-> 1,
                             found |-> 0, outcome |-> "IntegrityError" ]
    /\ Len(participants[1][2]) = 1
    /\ participants[1][2][1].is_online

----------------------------------------------------------------------------
\* C21 as claimed: the messages of a room are only ever appended, any two of
\* them have different created_at values that increase in commit order, and
\* what get_room_messages returns for a room after a step extends what it
\* returned before the step.
IsPrefix(a, b) == Len(a) <= Len(b) /\ SubSeq(b, 1, Len(a)) = a

CommitOrderIsTimestampOrder ==
    \A i \in 1 .. Len(messages), j \in 1 .. Len(messages) :
        ( i < j /\ messages[i].room_id = messages[j].room_id )
        => messages[i].created_at < messages[j].created_at

MessagesTotallyOrdered ==
    /\ [] CommitOrderIsTimestampOrder
    /\ [][ /\ IsPrefix(messages, messages')
           /\ \A r \in RoomIds :
                 IsPrefix(GetRoomMessages(messages, r), GetRoomMessages(messages', r))
         ]_vars

----------------------------------------------------------------------------
\* C22: a booking that is confirmed or completed has payment_status paid or
\* disputed, payment_status refunded occurs only on cancelled bookings, and
\* a booking becomes confirmed only by process_payment on a succeeded intent
\* or by the payment-success event, which set payment_status to paid in the
\* same commit.
PaidWhileConfirmed ==
    \A id \in BookingIds :
        /\ bookings[id].status \in { "confirmed", "completed" }
            => bookings[id].payment_status \in { "paid", "disputed" }
        /\ bookings[id].payment_status = "refunded"
            => bookings[id].status = "cancelled"

ConfirmedOnlyOnPayment ==
    /\ [] PaidWhileConfirmed
    /\ [][ \A id \in BookingIds :
             ( bookings[id].status # "confirmed" /\ bookings'[id].status = "confirmed" )
             => /\ bookings'[id].payment_status = "paid"
                /\ \/ bookings' = PaymentSuccessResult(id)
                   \/ \E actor \in Users :
                         /\ PaymentOutcome(actor, id, "succeeded") = "ok"
                         /\ bookings' = PaymentResult(actor, id, "succeeded")
         ]_vars

\* one booking was paid, completed and disputed, the other was paid and
\* then cancelled with its refund
PaymentWitness ==
    \E i \in BookingIds, j \in BookingIds :
        /\ bookings[i].status = "completed"
        /\ bookings[i].payment_status = "disputed"
        /\ bookings[j].status = "cancelled"
        /\ bookings[j].payment_status = "refunded"

----------------------------------------------------------------------------
\* C23 as claimed: a pending booking that is the only booking of its space
\* can be moved by its requester to every window with start < end that
\* does not start in the past, a window overlapping its own current one
\* included.
MoveWindows ==
    { <<At(1, 9, 0), At(1, 11, 0)>>,
      <<At(1, 9, 0), At(1, 11, 30)>>,
      <<At(1, 11, 0), At(1, 11, 30)>> }

LoneBookingMovesAnywhere ==
    \A id \in BookingIds, w \in MoveWindows :
        ( /\ bookings[id].status = "pending"
          /\ \A other \in BookingIds \ { id } :
                bookings[other].space_id # bookings[id].space_id
          /\ w[1] >= now )
        => /\ UpdateOutcome(bookings[id].user_id, id, w[1], w[2]) = "ok"
           /\ UpdateResult(bookings[id].user_id, id, w[1], w[2])[id].start_time = w[1]
           /\ UpdateResult(bookings[id].user_id, id, w[1], w[2])[id].end_time = w[2]

----------------------------------------------------------------------------
\* C24 as claimed: a create request that ends with an error, the failure of
\* the payment intent after the availability check included, has added no
\* booking: the table holds as many rows as there are requests that ended
\* without error, and the window of a request that ended with an error is
\* still available unless a request that ended without error took it.
CreateAllOrNothing ==
    /\ Len(bookings) =
            Cardinality({ t \in Threads :
                            threads[t].pc = "done" /\ threads[t].outcome = "ok" })
    /\ \A t \in Threads :
          ( threads[t].pc = "done" /\ threads[t].outcome = "PaymentIntentFailed" )
          => \/ IsAvailable(threads[t].space_id, threads[t].start_time,
                            threads[t].end_time)
             \/ \E o \in Threads :
                    /\ threads[o].pc = "done"
                    /\ threads[o].outcome = "ok"
                    /\ threads[o].space_id = threads[t].space_id

----------------------------------------------------------------------------
\* C25 as claimed: a message sent, over REST or the realtime channel, to a
\* room that is no longer active or is past its expiry is turned down and
\* appends no row, also for a user whose participant row is still online.
NoMessageToClosedRoom ==
    \A u \in RoomUsers, r \in RoomIds, channel \in SendChannels :
        ( ~ rooms[r].is_active \/ IsExpired(r) )
        => /\ SendOutcome(u, r, channel) # "ok"
           /\ SendResult(u, r, channel) = messages

----------------------------------------------------------------------------
\* C26 as claimed: a room that is not active (is_active = false, or now at
\* or past expires_at) is not made active (is_active = true and
\* now < expires_at) again by any step of extend, update, join, leave or
\* the sweep.
RoomActive(rs, t, r) == rs[r].is_active /\ t < rs[r].expires_at

ClosedRoomsStayClosed ==
    [][ \A r \in RoomIds :
            ~ RoomActive(rooms, now, r) => ~ RoomActive(rooms', now', r) ]_vars

----------------------------------------------------------------------------
\* C27 as claimed: no two rooms share a room code, and every create_room
\* request that ran to its end, interleaved with others, ended with its
\* room created.
DistinctCodesAndNoCreateFails ==
    /\ \A r1 \in RoomIds, r2 \in RoomIds :
          r1 # r2 => rooms[r1].room_code # rooms[r2].room_code
    /\ \A t \in Threads : creators[t].pc = "done" => creators[t].outcome = "ok"

----------------------------------------------------------------------------
\* C28 as claimed: every room with is_private = true stores a password of
\* at least 4 characters, after create_room and after every update_room.
PrivateRoomsHavePassword ==
    \A r \in RoomIds :
        rooms[r].is_private
        => /\ ~ rooms[r].password.is_null
           /\ Len(rooms[r].password.text) >= MinPasswordLength

----------------------------------------------------------------------------
\* C29 as claimed: with the handlers run one after the other, the number of
\* participants online in a room is at most the room's max_participants.
OnlineWithinMaxParticipants ==
    \A r \in RoomIds : GetParticipantCount(r) <= rooms[r].max_participants

----------------------------------------------------------------------------
\* C30 as claimed: every stored booking that is pending or confirmed has
\* start < end, lasts at least 1 hour and at most 24 hours, starts at hour
\* 9 or later and ends at hour 21 or earlier, after create and after every
\* update that went through.
StoredBookingsKeepTheRules ==
    \A id \in BookingIds :
        bookings[id].status \in { "pending", "confirmed" }
        => /\ bookings[id].start_time < bookings[id].end_time
           /\ bookings[id].end_time - bookings[id].start_time >= MinDurationMinutes
           /\ bookings[id].end_time - bookings[id].start_time <= MaxDurationMinutes
           /\ HourOf(bookings[id].start_time) >= OpenHour
           /\ HourOf(bookings[id].end_time) <= CloseHour

====
